---- MODULE Spec2Model ----
(***************************************************************************)
(* Dual servo sorting controller (src/arduino.cxx).                        *)
(*                                                                         *)
(* The firmware is one control thread: setup() once, then loop() forever.  *)
(* Every servo write is one step of the model, so that the order of the    *)
(* hardware writes, the tracked angles and the serial trace can be         *)
(* observed between any two writes.  A servo write inside a try block may  *)
(* raise a platform fault, which the enclosing catch turns into a false    *)
(* return value.                                                           *)
(***************************************************************************)
EXTENDS Integers, Sequences, FiniteSets, TLC

\* ------------------------------------------------------------- bounds
\* Number of serial lines the host sends.
MaxLines == 2
\* Number of platform faults raised by servo operations.
MaxFaults == 1

\* ---------------------------------------------------------- constants
LEFT_POSITION == 0
RIGHT_POSITION == 180
CENTER_POSITION == 90
SERVO2_ACTIVE == 90
SERVO2_IDLE == 0
\* |step| in moveServoSmoothly.
StepSize == 2
\* Number of entries of testSequence, the bound of the loop in runCompleteTest.
TestSteps == 5
\* A Servo object that has not been written yet.
Unwritten == -1
\* Angles a servo accepts.
AngleRange == 0..180

\* millis() when setup() reads it: the blocking delays that precede it,
\* performStartupSequence (3 blinks of 200 + 200 ms) and the two delays of
\* initializeServos (500 and 1000 ms).
millisAtBoot == 3 * (200 + 200) + 500 + 1000

\* -------------------------------------------------------------- strings
\* An Arduino String is modelled as a sequence of one-character strings.
LowerCase ==
  <<"a","b","c","d","e","f","g","h","i","j","k","l","m",
    "n","o","p","q","r","s","t","u","v","w","x","y","z">>
UpperCase ==
  <<"A","B","C","D","E","F","G","H","I","J","K","L","M",
    "N","O","P","Q","R","S","T","U","V","W","X","Y","Z">>

toupper(c) ==
  IF \E k \in 1..26 : LowerCase[k] = c
  THEN UpperCase[CHOOSE k \in 1..26 : LowerCase[k] = c]
  ELSE c

isspace(c) == c \in {" ", "\t", "\r"}

\* String::toUpperCase
toUpperCase(s) == [k \in 1..Len(s) |-> toupper(s[k])]

RECURSIVE TrimLeft(_)
TrimLeft(s) == IF s # <<>> /\ isspace(Head(s)) THEN TrimLeft(Tail(s)) ELSE s

RECURSIVE TrimRight(_)
TrimRight(s) ==
  IF s # <<>> /\ isspace(s[Len(s)])
  THEN TrimRight(SubSeq(s, 1, Len(s) - 1))
  ELSE s

\* String::trim
trim(s) == TrimRight(TrimLeft(s))

LEFT == <<"L","E","F","T">>
RIGHT == <<"R","I","G","H","T">>
CENTER == <<"C","E","N","T","E","R">>
TEST == <<"T","E","S","T">>
STATUS == <<"S","T","A","T","U","S">>

testSequence == <<CENTER, LEFT, CENTER, RIGHT, CENTER>>

\* Lines the host may send (the terminator already removed by
\* readStringUntil): the five tokens in several spellings, tokens that are
\* none of them, the empty line and a blank line.
RawLines ==
  { LEFT, <<"l","e","f","t">>, <<" ","L","e","f","t","\r">>,
    RIGHT, <<"r","i","g","h","t"," ">>,
    CENTER, <<"c","e","n","t","e","r">>,
    TEST, <<"t","e","s","t">>,
    STATUS, <<"s","t","a","t","u","s">>,
    <<"F","O","O">>, <<"L"," ","E","F","T">>,
    <<>>, <<" ">> }

\* ---------------------------------------------------------------- state
VARIABLES
  pc,               \* position of the control thread
  systemReady, startTime, totalMoves, leftMoves, rightMoves,
  currentPosition1, currentPosition2,
  attached,         \* both Servo objects attached to their pins
  servo1, servo2,   \* last angle written to each servo
  command,          \* loop's / processCommand's String command
  direction, targetPosition, caller, ret,   \* executeSortingMovement
  i,                \* runCompleteTest's loop index
  fromPos, toPos, step, pos, phase,         \* moveServoSmoothly
  out,              \* serial lines of the boot or of the current command
  hw,               \* servo writes <<servo, angle>> of the boot, or of the
                    \* current executeSortingMovement or moveServoSmoothly
  calls,            \* executeSortingMovement calls of the current command
  okLeft, okRight, okCenter,   \* successful calls so far, per direction
  rawLine,          \* the line of the current command as the host sent it
  lines, faults     \* serial lines read, platform faults raised

globals ==
  <<systemReady, startTime, totalMoves, leftMoves, rightMoves,
    currentPosition1, currentPosition2>>
counters == <<totalMoves, leftMoves, rightMoves>>
servos == <<attached, servo1, servo2>>
esmLocals == <<direction, targetPosition>>
moveLocals == <<fromPos, toPos, step, pos, phase>>
ghosts == <<okLeft, okRight, okCenter, rawLine>>

vars ==
  <<pc, systemReady, startTime, totalMoves, leftMoves, rightMoves,
    currentPosition1, currentPosition2, attached, servo1, servo2, command,
    direction, targetPosition, caller, ret, i, fromPos, toPos, step, pos,
    phase, out, hw, calls, okLeft, okRight, okCenter, rawLine, lines,
    faults>>

\* Serial.println of one line; a line is <<text>> or <<text, value>>.
println(l) == out' = Append(out, l)

\* servo1.write(a), servo2.write(a)
write1(a) == servo1' = a /\ servo2' = servo2 /\ hw' = Append(hw, <<1, a>>)
write2(a) == servo2' = a /\ servo1' = servo1 /\ hw' = Append(hw, <<2, a>>)

\* The locals of moveServoSmoothly and executeSortingMovement once they
\* are out of scope.
NoMove ==
  /\ fromPos' = 0 /\ toPos' = 0 /\ step' = 0 /\ pos' = 0 /\ phase' = "none"
NoEsm == direction' = <<>> /\ targetPosition' = CENTER_POSITION

Init ==
  /\ pc = "setup"
  /\ systemReady = FALSE /\ startTime = 0
  /\ totalMoves = 0 /\ leftMoves = 0 /\ rightMoves = 0
  /\ currentPosition1 = CENTER_POSITION /\ currentPosition2 = SERVO2_IDLE
  /\ attached = FALSE /\ servo1 = Unwritten /\ servo2 = Unwritten
  /\ command = <<>>
  /\ direction = <<>> /\ targetPosition = CENTER_POSITION
  /\ caller = "none" /\ ret = FALSE
  /\ i = 0
  /\ fromPos = 0 /\ toPos = 0 /\ step = 0 /\ pos = 0 /\ phase = "none"
  /\ out = <<>> /\ hw = <<>> /\ calls = <<>>
  /\ okLeft = 0 /\ okRight = 0 /\ okCenter = 0 /\ rawLine = <<>>
  /\ lines = 0 /\ faults = 0

\* ---------------------------------------------------------------- setup
\* setup() up to and including the first line of initializeServos.
setup ==
  /\ pc = "setup"
  /\ println(<<"Initializing servos...">>)
  /\ pc' = "init_attach"
  /\ UNCHANGED <<globals, servos, command, esmLocals, caller, ret, i,
                 moveLocals, hw, calls, ghosts, lines, faults>>

initAttach ==
  /\ pc = "init_attach"
  /\ attached' = TRUE
  /\ pc' = "init_write1"
  /\ UNCHANGED <<globals, servo1, servo2, command, esmLocals, caller, ret, i,
                 moveLocals, out, hw, calls, ghosts, lines, faults>>

initWrite1 ==
  /\ pc = "init_write1"
  /\ write1(CENTER_POSITION)
  /\ pc' = "init_write2"
  /\ UNCHANGED <<globals, attached, command, esmLocals, caller, ret, i,
                 moveLocals, out, calls, ghosts, lines, faults>>

initWrite2 ==
  /\ pc = "init_write2"
  /\ write2(SERVO2_IDLE)
  /\ currentPosition1' = CENTER_POSITION
  /\ currentPosition2' = SERVO2_IDLE
  /\ println(<<"Both servos initialized and positioned">>)
  /\ ret' = TRUE
  /\ pc' = "setup_ret"
  /\ UNCHANGED <<systemReady, startTime, counters, attached, command,
                 esmLocals, caller, i, moveLocals, calls, ghosts,
                 lines, faults>>

\* A fault in attach or in one of the two initial writes: the catch of
\* initializeServos.
initFault ==
  /\ pc \in {"init_attach", "init_write1", "init_write2"}
  /\ faults < MaxFaults
  /\ faults' = faults + 1
  /\ println(<<"ERROR: Servo initialization failed">>)
  /\ ret' = FALSE
  /\ pc' = "setup_ret"
  /\ UNCHANGED <<globals, servos, command, esmLocals, caller, i, moveLocals,
                 hw, calls, ghosts, lines>>

\* The banner without its last line.
Banner_NoReady ==
  << <<"============================================">>,
     <<"Arduino Dual Servo ML Sorting Controller">>,
     <<"Servo 1 (Pin 12): Primary sorting">>,
     <<"Servo 2 (Pin 13): Secondary control">>,
     <<"Commands: LEFT, RIGHT, CENTER, TEST, STATUS">>,
     <<"============================================">>,
     <<"System initialized successfully">> >>

Banner ==
  << <<"============================================">>,
     <<"Arduino Dual Servo ML Sorting Controller">>,
     <<"Servo 1 (Pin 12): Primary sorting">>,
     <<"Servo 2 (Pin 13): Secondary control">>,
     <<"Commands: LEFT, RIGHT, CENTER, TEST, STATUS">>,
     <<"============================================">>,
     <<"System initialized successfully">>,
     <<"READY">> >>

\* The rest of setup(), after initializeServos returned.
setupFinish ==
  /\ pc = "setup_ret"
  /\ IF ret
     THEN /\ systemReady' = TRUE
          /\ startTime' = millisAtBoot
          /\ out' = out \o Banner
     ELSE /\ println(<<"ERROR: Servo initialization failed!">>)
          /\ UNCHANGED <<systemReady, startTime>>
  /\ ret' = FALSE
  /\ pc' = "loop"
  /\ UNCHANGED <<counters, currentPosition1, currentPosition2, servos,
                 command, esmLocals, caller, i, moveLocals, hw, calls, ghosts, lines, faults>>

\* ----------------------------------------------------------------- loop
\* loop() with Serial.available() == 0: nothing but the delay.
loopIdle ==
  /\ pc = "loop"
  /\ UNCHANGED vars

\* loop() with a line available: readStringUntil('\n') and command.trim(),
\* then the call of processCommand.
loop(raw) ==
  /\ pc = "loop"
  /\ lines < MaxLines
  /\ lines' = lines + 1
  /\ rawLine' = raw
  /\ command' = trim(raw)
  /\ out' = <<>> /\ hw' = <<>> /\ calls' = <<>>
  /\ pc' = "processCommand"
  /\ UNCHANGED <<globals, servos, esmLocals, caller, ret, i, moveLocals,
                 okLeft, okRight, okCenter, faults>>

\* The delay(10) that ends an iteration of loop() in which a command was
\* processed.  The trace of the command is dropped here.
loopDelay ==
  /\ pc = "loop_delay"
  /\ pc' = "loop"
  /\ command' = <<>> /\ caller' = "none" /\ ret' = FALSE
  /\ out' = <<>> /\ hw' = <<>> /\ calls' = <<>> /\ rawLine' = <<>>
  /\ UNCHANGED <<globals, servos, esmLocals, i, moveLocals, okLeft, okRight,
                 okCenter, lines, faults>>

\* ------------------------------------------------------- processCommand
\* processCommand without toUpperCase.
processCommand_NoUpperCase ==
  /\ pc = "processCommand"
  /\ command' = trim(command)
  /\ println(<<"Received command: ", command'>>)
  /\ pc' = "dispatch"
  /\ UNCHANGED <<globals, servos, esmLocals, caller, ret, i, moveLocals, hw,
                 calls, ghosts, lines, faults>>

\* processCommand returning at once, without any response, when the
\* normalised command is empty.
processCommand_SkipsEmpty ==
  /\ pc = "processCommand"
  /\ command' = trim(toUpperCase(command))
  /\ IF command' = <<>>
     THEN pc' = "loop_delay" /\ out' = out
     ELSE pc' = "dispatch" /\ println(<<"Received command: ", command'>>)
  /\ UNCHANGED <<globals, servos, esmLocals, caller, ret, i, moveLocals, hw,
                 calls, ghosts, lines, faults>>

\* Normalisation and the "Received command" line.
processCommand ==
  /\ pc = "processCommand"
  /\ command' = trim(toUpperCase(command))
  /\ println(<<"Received command: ", command'>>)
  /\ pc' = "dispatch"
  /\ UNCHANGED <<globals, servos, esmLocals, caller, ret, i, moveLocals, hw,
                 calls, ghosts, lines, faults>>

\* The LEFT, RIGHT and CENTER branches: the call of executeSortingMovement.
dispatchMove ==
  /\ pc = "dispatch"
  /\ command \in {LEFT, RIGHT, CENTER}
  /\ direction' = command
  /\ caller' = "cmd"
  /\ pc' = "esm"
  /\ UNCHANGED <<globals, servos, command, targetPosition, ret, i,
                 moveLocals, out, hw, calls, ghosts, lines, faults>>

\* The LEFT, RIGHT and CENTER branches after executeSortingMovement
\* returned.
dispatchReturn ==
  /\ pc = "esm_ret"
  /\ caller = "cmd"
  /\ println(IF ret THEN <<"movement completed", command>>
                    ELSE <<"ERROR: movement failed", command>>)
  /\ pc' = "ready"
  /\ UNCHANGED <<globals, servos, command, esmLocals, caller, ret, i,
                 moveLocals, hw, calls, ghosts, lines, faults>>

\* The TEST branch: the call of runCompleteTest and its first line.
dispatchTest ==
  /\ pc = "dispatch"
  /\ command = TEST
  /\ println(<<"Starting complete system test...">>)
  /\ i' = 0
  /\ pc' = "test_loop"
  /\ UNCHANGED <<globals, servos, command, esmLocals, caller, ret,
                 moveLocals, hw, calls, ghosts, lines, faults>>

\* printSystemStatus.  The uptime and the free memory are printed without
\* their values: the clock and the heap are not part of the model.
StatusReport ==
  << <<"=== ARDUINO SYSTEM STATUS ===">>,
     <<"System Ready: ", IF systemReady THEN "YES" ELSE "NO">>,
     <<"Uptime: ">>,
     <<"Total Movements: ", totalMoves>>,
     <<"Left Movements: ", leftMoves>>,
     <<"Right Movements: ", rightMoves>>,
     <<"Servo 1 Position: ", currentPosition1>>,
     <<"Servo 2 Position: ", currentPosition2>>,
     <<"Free Memory: ">>,
     <<"============================">> >>

\* printSystemStatus counting the report as a movement.
printSystemStatus_CountsMove ==
  /\ out' = out \o StatusReport
  /\ totalMoves' = totalMoves + 1
  /\ UNCHANGED <<systemReady, startTime, leftMoves, rightMoves,
                 currentPosition1, currentPosition2, servos, hw>>

printSystemStatus ==
  /\ out' = out \o StatusReport
  /\ UNCHANGED <<globals, servos, hw>>

\* The STATUS branch.
dispatchStatus ==
  /\ pc = "dispatch"
  /\ command = STATUS
  /\ printSystemStatus
  /\ pc' = "ready"
  /\ UNCHANGED <<command, esmLocals, caller, ret, i, moveLocals, calls, ghosts, lines, faults>>

\* dispatchUnknown returning before the ready signal.
dispatchUnknown_NoReady ==
  /\ pc = "dispatch"
  /\ command \notin {LEFT, RIGHT, CENTER, TEST, STATUS}
  /\ out' = out \o << <<"ERROR: Unknown command - ", command>>,
                      <<"Valid commands: LEFT, RIGHT, CENTER, TEST, STATUS">> >>
  /\ pc' = "loop_delay"
  /\ UNCHANGED <<globals, servos, command, esmLocals, caller, ret, i,
                 moveLocals, hw, calls, ghosts, lines, faults>>

\* dispatchUnknown treating an unknown token as CENTER.
dispatchUnknown_DefaultsToCenter ==
  /\ pc = "dispatch"
  /\ command \notin {LEFT, RIGHT, CENTER, TEST, STATUS}
  /\ direction' = CENTER
  /\ caller' = "cmd"
  /\ pc' = "esm"
  /\ UNCHANGED <<globals, servos, command, targetPosition, ret, i,
                 moveLocals, out, hw, calls, ghosts, lines, faults>>

\* The final else branch.
dispatchUnknown ==
  /\ pc = "dispatch"
  /\ command \notin {LEFT, RIGHT, CENTER, TEST, STATUS}
  /\ out' = out \o << <<"ERROR: Unknown command - ", command>>,
                      <<"Valid commands: LEFT, RIGHT, CENTER, TEST, STATUS">> >>
  /\ pc' = "ready"
  /\ UNCHANGED <<globals, servos, command, esmLocals, caller, ret, i,
                 moveLocals, hw, calls, ghosts, lines, faults>>

\* "Always send ready signal after processing", and the return to loop().
sendReady ==
  /\ pc = "ready"
  /\ println(<<"READY">>)
  /\ pc' = "loop_delay"
  /\ UNCHANGED <<globals, servos, command, esmLocals, caller, ret, i,
                 moveLocals, hw, calls, ghosts, lines, faults>>

\* ------------------------------------------------------ runCompleteTest
\* The head of the for loop: either the next call of
\* executeSortingMovement, or the last line of the test.
testLoop ==
  /\ pc = "test_loop"
  /\ IF i < TestSteps
     THEN /\ println(<<"Testing position: ", testSequence[i + 1]>>)
          /\ direction' = testSequence[i + 1]
          /\ caller' = "test"
          /\ pc' = "esm"
          /\ UNCHANGED i
     ELSE /\ println(<<"Complete system test finished">>)
          /\ i' = 0
          /\ pc' = "ready"
          /\ UNCHANGED <<direction, caller>>
  /\ UNCHANGED <<globals, servos, command, targetPosition, ret, moveLocals,
                 hw, calls, ghosts, lines, faults>>

\* testReturn leaving the loop when a step failed.
testReturn_AbortOnFailure ==
  /\ pc = "esm_ret"
  /\ caller = "test"
  /\ IF ret
     THEN i' = i + 1 /\ pc' = "test_loop"
     ELSE i' = 0 /\ pc' = "ready"
  /\ UNCHANGED <<globals, servos, command, esmLocals, caller, ret,
                 moveLocals, out, hw, calls, ghosts, lines, faults>>

\* executeSortingMovement returned to runCompleteTest: its result is
\* dropped; delay(500) and i++.
testReturn ==
  /\ pc = "esm_ret"
  /\ caller = "test"
  /\ i' = i + 1
  /\ pc' = "test_loop"
  /\ UNCHANGED <<globals, servos, command, esmLocals, caller, ret,
                 moveLocals, out, hw, calls, ghosts, lines, faults>>

\* ----------------------------------------------- executeSortingMovement
\* A return of executeSortingMovement: the result, and the locals of the
\* call and of the moves it made go out of scope.
esmReturn(r) ==
  /\ ret' = r
  /\ pc' = "esm_ret"
  /\ NoEsm
  /\ NoMove

\* The direction's target angle.
Target(d) ==
  IF d = LEFT THEN LEFT_POSITION
  ELSE IF d = RIGHT THEN RIGHT_POSITION
  ELSE CENTER_POSITION

\* esmEntry without the readiness check.
esmEntry_NoReadyCheck ==
  /\ pc = "esm"
  /\ hw' = <<>>
  /\ LET d == trim(toUpperCase(direction)) IN
       IF d \notin {LEFT, RIGHT, CENTER}
       THEN /\ println(<<"ERROR: Invalid direction - ", d>>)
            /\ calls' = Append(calls, <<d, "failed">>)
            /\ esmReturn(FALSE)
       ELSE /\ println(<<"Executing sorting movement: ", d>>)
            /\ calls' = Append(calls, <<d, "running">>)
            /\ direction' = d
            /\ targetPosition' = Target(d)
            /\ pc' = "esm_activate"
            /\ UNCHANGED <<ret, moveLocals>>
  /\ UNCHANGED <<globals, servos, command, caller, i, ghosts, lines, faults>>

\* The readiness check, the normalisation of the direction and the choice
\* of the target.
esmEntry ==
  /\ pc = "esm"
  /\ hw' = <<>>
  /\ LET d == trim(toUpperCase(direction)) IN
       IF ~systemReady
       THEN /\ println(<<"ERROR: System not ready">>)
            /\ calls' = Append(calls, <<direction, "failed">>)
            /\ esmReturn(FALSE)
       ELSE IF d \notin {LEFT, RIGHT, CENTER}
       THEN /\ println(<<"ERROR: Invalid direction - ", d>>)
            /\ calls' = Append(calls, <<d, "failed">>)
            /\ esmReturn(FALSE)
       ELSE /\ println(<<"Executing sorting movement: ", d>>)
            /\ calls' = Append(calls, <<d, "running">>)
            /\ direction' = d
            /\ targetPosition' = Target(d)
            /\ pc' = "esm_activate"
            /\ UNCHANGED <<ret, moveLocals>>
  /\ UNCHANGED <<globals, servos, command, caller, i, ghosts, lines, faults>>

\* esmActivate activating the secondary servo whatever the direction.
esmActivate_AlwaysActive ==
  /\ pc = "esm_activate"
  /\ write2(SERVO2_ACTIVE)
  /\ fromPos' = currentPosition1
  /\ toPos' = targetPosition
  /\ phase' = "go"
  /\ pc' = "move"
  /\ UNCHANGED <<globals, attached, command, esmLocals, caller, ret, i, step,
                 pos, out, calls, ghosts, lines, faults>>

\* esmActivate with the activation of the secondary servo after the first
\* step of the primary servo instead of before it.
esmActivate_PrimaryFirst ==
  /\ pc = "esm_activate"
  /\ IF direction # CENTER
     THEN /\ servo1' = currentPosition1
          /\ servo2' = SERVO2_ACTIVE
          /\ hw' = hw \o << <<1, currentPosition1>>, <<2, SERVO2_ACTIVE>> >>
     ELSE UNCHANGED <<servo1, servo2, hw>>
  /\ fromPos' = currentPosition1
  /\ toPos' = targetPosition
  /\ phase' = "go"
  /\ pc' = "move"
  /\ UNCHANGED <<globals, attached, command, esmLocals, caller, ret, i, step,
                 pos, out, calls, ghosts, lines, faults>>

\* The secondary servo's activation, then the call of moveServoSmoothly
\* towards the target.
esmActivate ==
  /\ pc = "esm_activate"
  /\ IF direction # CENTER
     THEN write2(SERVO2_ACTIVE)
     ELSE UNCHANGED <<servo1, servo2, hw>>
  /\ fromPos' = currentPosition1
  /\ toPos' = targetPosition
  /\ phase' = "go"
  /\ pc' = "move"
  /\ UNCHANGED <<globals, attached, command, esmLocals, caller, ret, i, step,
                 pos, out, calls, ghosts, lines, faults>>

\* esmHold without the move back to the centre.
esmHold_NoReturn ==
  /\ pc = "esm_hold"
  /\ currentPosition1' = targetPosition
  /\ pc' = "esm_idle"
  /\ UNCHANGED <<systemReady, startTime, counters, currentPosition2, servos,
                 command, esmLocals, caller, ret, i, moveLocals, out, hw,
                 calls, ghosts, lines, faults>>

\* After the first move: the tracked angle, the hold, and the call of
\* moveServoSmoothly back to the centre unless the target was the centre.
esmHold ==
  /\ pc = "esm_hold"
  /\ currentPosition1' = targetPosition
  /\ IF targetPosition # CENTER_POSITION
     THEN /\ println(<<"Returning to center position">>)
          /\ fromPos' = targetPosition
          /\ toPos' = CENTER_POSITION
          /\ phase' = "return"
          /\ pc' = "move"
     ELSE /\ pc' = "esm_idle"
          /\ UNCHANGED <<out, fromPos, toPos, phase>>
  /\ UNCHANGED <<systemReady, startTime, counters, currentPosition2, servos,
                 command, esmLocals, caller, ret, i, step, pos, hw, calls, ghosts, lines, faults>>

\* esmReturned without the assignment of line 181: the tracked angle stays
\* at the target.
esmReturned_NoTrack ==
  /\ pc = "esm_returned"
  /\ pc' = "esm_idle"
  /\ UNCHANGED <<globals, servos, command, esmLocals, caller, ret, i,
                 moveLocals, out, hw, calls, ghosts, lines, faults>>

\* After the move back to the centre: the tracked angle.
esmReturned ==
  /\ pc = "esm_returned"
  /\ currentPosition1' = CENTER_POSITION
  /\ pc' = "esm_idle"
  /\ UNCHANGED <<systemReady, startTime, counters, currentPosition2, servos,
                 command, esmLocals, caller, ret, i, moveLocals, out, hw,
                 calls, ghosts, lines, faults>>

\* esmIdle without the write of line 185: the secondary servo stays active.
esmIdle_NoWrite ==
  /\ pc = "esm_idle"
  /\ pc' = "esm_stats"
  /\ UNCHANGED <<globals, servos, command, esmLocals, caller, ret, i,
                 moveLocals, out, hw, calls, ghosts, lines, faults>>
\* The secondary servo back to idle.
esmIdle ==
  /\ pc = "esm_idle"
  /\ write2(SERVO2_IDLE)
  /\ pc' = "esm_stats"
  /\ UNCHANGED <<globals, attached, command, esmLocals, caller, ret, i,
                 moveLocals, out, calls, ghosts, lines, faults>>

\* UpdateStatistics with a plain else in place of else-if RIGHT: a CENTER
\* move counts as a right move.
UpdateStatistics_ElseRight(d) ==
  /\ totalMoves' = totalMoves + 1
  /\ leftMoves' = IF d = LEFT THEN leftMoves + 1 ELSE leftMoves
  /\ rightMoves' = IF d # LEFT THEN rightMoves + 1 ELSE rightMoves

\* "Update statistics".  The counters are unsigned long: they wrap only
\* after 2^32 moves, which no run within the bounds makes.
UpdateStatistics(d) ==
  /\ totalMoves' = totalMoves + 1
  /\ leftMoves' = IF d = LEFT THEN leftMoves + 1 ELSE leftMoves
  /\ rightMoves' = IF d # LEFT /\ d = RIGHT THEN rightMoves + 1 ELSE rightMoves

\* The tracked angle of the secondary servo, the statistics and the
\* successful return.
esmStats ==
  /\ pc = "esm_stats"
  /\ currentPosition2' = SERVO2_IDLE
  /\ UpdateStatistics(direction)
  /\ println(<<"Sorting movement completed successfully">>)
  /\ calls' = [calls EXCEPT ![Len(calls)] = <<direction, "ok">>]
  /\ okLeft' = IF direction = LEFT THEN okLeft + 1 ELSE okLeft
  /\ okRight' = IF direction = RIGHT THEN okRight + 1 ELSE okRight
  /\ okCenter' = IF direction = CENTER THEN okCenter + 1 ELSE okCenter
  /\ esmReturn(TRUE)
  /\ UNCHANGED <<systemReady, startTime, currentPosition1, servos, command,
                 caller, i, hw, rawLine, lines, faults>>

\* The loop condition one step too generous: an iteration is still made
\* when pos is one past toPos.
LoopCond_OneTooFar ==
  IF step > 0 THEN pos <= toPos + 1 ELSE pos >= toPos - 1

\* The condition of the for loop in moveServoSmoothly.
LoopCond == IF step > 0 THEN pos <= toPos ELSE pos >= toPos

\* The control thread is about to write to a servo inside the try block of
\* executeSortingMovement.
AtWrite ==
  \/ pc = "esm_activate" /\ direction # CENTER
  \/ pc = "move_loop" /\ LoopCond
  \/ pc = "move_final"
  \/ pc = "esm_idle"

\* The catch of executeSortingMovement taking the system out of service.
esmFault_ClearsReady ==
  /\ AtWrite
  /\ faults < MaxFaults
  /\ faults' = faults + 1
  /\ println(<<"ERROR: Servo movement failed">>)
  /\ calls' = [calls EXCEPT ![Len(calls)] = <<direction, "failed">>]
  /\ systemReady' = FALSE
  /\ esmReturn(FALSE)
  /\ UNCHANGED <<startTime, counters, currentPosition1, currentPosition2,
                 servos, command, caller, i, hw, ghosts, lines>>

\* The catch counting the aborted movement as a movement.
esmFault_CountsMove ==
  /\ AtWrite
  /\ faults < MaxFaults
  /\ faults' = faults + 1
  /\ println(<<"ERROR: Servo movement failed">>)
  /\ calls' = [calls EXCEPT ![Len(calls)] = <<direction, "failed">>]
  /\ totalMoves' = totalMoves + 1
  /\ esmReturn(FALSE)
  /\ UNCHANGED <<systemReady, startTime, leftMoves, rightMoves,
                 currentPosition1, currentPosition2, servos, command, caller,
                 i, hw, ghosts, lines>>

\* The write raises a platform fault: the catch of executeSortingMovement.
esmFault ==
  /\ AtWrite
  /\ faults < MaxFaults
  /\ faults' = faults + 1
  /\ println(<<"ERROR: Servo movement failed">>)
  /\ calls' = [calls EXCEPT ![Len(calls)] = <<direction, "failed">>]
  /\ esmReturn(FALSE)
  /\ UNCHANGED <<globals, servos, command, caller, i, hw, ghosts,
                 lines>>

\* ---------------------------------------------------- moveServoSmoothly
\* Where moveServoSmoothly returns to.
MoveReturnPc ==
  CASE phase = "go" -> "esm_hold"
    [] phase = "return" -> "esm_returned"
    [] OTHER -> "move_done"

\* moveStart without the early return of line 206.
moveStart_NoEarlyReturn ==
  /\ pc = "move"
  /\ step' = (IF toPos > fromPos THEN StepSize ELSE -StepSize)
  /\ pos' = fromPos
  /\ pc' = "move_loop"
  /\ UNCHANGED <<globals, servos, command, esmLocals, caller, ret, i,
                 fromPos, toPos, phase, out, hw, calls, ghosts, lines,
                 faults>>

\* The early return on equal angles, or the choice of the step and the
\* initialisation of the loop.
moveStart ==
  /\ pc = "move"
  /\ IF fromPos = toPos
     THEN /\ pc' = MoveReturnPc
          /\ UNCHANGED <<step, pos>>
     ELSE /\ step' = (IF toPos > fromPos THEN StepSize ELSE -StepSize)
          /\ pos' = fromPos
          /\ pc' = "move_loop"
  /\ UNCHANGED <<globals, servos, command, esmLocals, caller, ret, i,
                 fromPos, toPos, phase, out, hw, calls, ghosts,
                 lines, faults>>

\* moveLoop with a loop that never exits: once the condition is false the
\* thread spins in place.
moveLoop_NeverExits ==
  /\ pc = "move_loop"
  /\ IF LoopCond
     THEN /\ write1(pos)
          /\ pos' = pos + step
          /\ pc' = "move_loop"
          /\ UNCHANGED <<globals, attached, command, esmLocals, caller, ret,
                         i, fromPos, toPos, step, phase, out, calls, ghosts,
                         lines, faults>>
     ELSE UNCHANGED vars

\* One iteration of the for loop, or its exit.
moveLoop ==
  /\ pc = "move_loop"
  /\ IF LoopCond
     THEN /\ write1(pos)
          /\ pos' = pos + step
          /\ pc' = "move_loop"
     ELSE /\ pc' = "move_final"
          /\ UNCHANGED <<servo1, servo2, hw, pos>>
  /\ UNCHANGED <<globals, attached, command, esmLocals, caller, ret, i,
                 fromPos, toPos, step, phase, out, calls, ghosts,
                 lines, faults>>

\* moveFinal without the final write of line 218.
moveFinal_NoFinalWrite ==
  /\ pc = "move_final"
  /\ pc' = MoveReturnPc
  /\ UNCHANGED <<globals, servos, command, esmLocals, caller, ret, i,
                 moveLocals, out, hw, calls, ghosts, lines, faults>>

\* "Ensure exact final position", and the return.
moveFinal ==
  /\ pc = "move_final"
  /\ write1(toPos)
  /\ pc' = MoveReturnPc
  /\ UNCHANGED <<globals, attached, command, esmLocals, caller, ret, i,
                 moveLocals, out, calls, ghosts, lines, faults>>

Next ==
  \/ setup \/ initAttach \/ initWrite1 \/ initWrite2 \/ initFault
  \/ setupFinish
  \/ esmEntry \/ esmActivate \/ esmHold \/ esmReturned \/ esmIdle
  \/ esmStats \/ esmFault
  \/ moveStart \/ moveLoop \/ moveFinal
  \/ loopIdle \/ (\E raw \in RawLines : loop(raw)) \/ loopDelay
  \/ processCommand
  \/ dispatchMove \/ dispatchReturn \/ dispatchTest \/ dispatchStatus
  \/ dispatchUnknown \/ sendReady
  \/ testLoop \/ testReturn

Spec == Init /\ [][Next]_vars

\* The steps of the control thread that do not wait for the host: all but
\* the reading of a line, which happens only when the host has sent one, and
\* the raising of a fault, which is the platform's.
Run ==
  \/ setup \/ initAttach \/ initWrite1 \/ initWrite2 \/ setupFinish
  \/ esmEntry \/ esmActivate \/ esmHold \/ esmReturned \/ esmIdle
  \/ esmStats
  \/ moveStart \/ moveLoop \/ moveFinal
  \/ loopDelay \/ processCommand
  \/ dispatchMove \/ dispatchReturn \/ dispatchTest \/ dispatchStatus
  \/ dispatchUnknown \/ sendReady
  \/ testLoop \/ testReturn

\* The firmware is the only thread of the controller and no interrupt
\* handler blocks it: a step of it that is possible is taken.
FairSpec == Spec /\ WF_vars(Run)

\* moveServoSmoothly on its own, for every pair of angles: the state is the
\* one a successful boot leaves, but for the primary servo, which stands at
\* fromPos and is tracked there (the callers pass the tracked angle); the
\* call returns to "move_done".
InitMove ==
  /\ pc = "move"
  /\ fromPos \in AngleRange /\ toPos \in AngleRange
  /\ step = 0 /\ pos = 0 /\ phase = "harness"
  /\ systemReady = TRUE /\ startTime = millisAtBoot
  /\ totalMoves = 0 /\ leftMoves = 0 /\ rightMoves = 0
  /\ currentPosition1 = fromPos /\ currentPosition2 = SERVO2_IDLE
  /\ attached = TRUE /\ servo1 = fromPos /\ servo2 = SERVO2_IDLE
  /\ command = <<>>
  /\ direction = <<>> /\ targetPosition = CENTER_POSITION
  /\ caller = "none" /\ ret = FALSE
  /\ i = 0
  /\ out = <<>> /\ hw = <<>> /\ calls = <<>>
  /\ okLeft = 0 /\ okRight = 0 /\ okCenter = 0 /\ rawLine = <<>>
  /\ lines = 0 /\ faults = 0

\* The program, together with the stand-alone calls of moveServoSmoothly.
SpecAll == (Init \/ InitMove) /\ [][Next]_vars

\* ------------------------------------------------------------ properties
Last(s) == s[Len(s)]
Abs(x) == IF x < 0 THEN -x ELSE x

\* Positions of the control thread inside setup().
SetupPcs == {"setup", "init_attach", "init_write1", "init_write2", "setup_ret"}
\* Positions between two commands.
IdlePcs == {"loop", "loop_delay"}
\* Positions at which a call of moveServoSmoothly has just returned.
MoveReturnPcs == {"esm_hold", "esm_returned", "move_done"}

\* The command of the current processCommand, normalised.
Normalised ==
  IF pc = "processCommand" THEN trim(toUpperCase(command)) ELSE command

\* Number of READY lines in a trace.
CountReady(s) == Cardinality({k \in 1..Len(s) : s[k] = <<"READY">>})

\* C1: whenever executeSortingMovement returns true, for any direction and
\* after any history of commands and faults, the tracked angle of the
\* primary servo is CENTER_POSITION.
C1_ReturnsToCenter ==
  (pc = "esm_ret" /\ ret) => currentPosition1 = CENTER_POSITION

\* A successful CENTER call that had to move the primary servo: it was
\* entered with the tracked angle off centre, after a faulted move.
C1_Witness ==
  /\ pc = "esm_ret" /\ ret
  /\ Last(calls) = <<CENTER, "ok">>
  /\ \E k \in 1..Len(hw) : hw[k][1] = 1
  /\ currentPosition1 = CENTER_POSITION

\* C2: totalMoves, leftMoves and rightMoves equal the numbers of successful
\* calls (all, LEFT, RIGHT) whatever was interleaved with them, and no step
\* decreases a counter.
C2_Statistics ==
  /\ [](/\ totalMoves = okLeft + okRight + okCenter
        /\ leftMoves = okLeft
        /\ rightMoves = okRight)
  /\ [][/\ totalMoves' >= totalMoves
        /\ leftMoves' >= leftMoves
        /\ rightMoves' >= rightMoves]_vars

\* Successful calls of all three directions, a failed call and two
\* commands have been counted.
C2_Witness ==
  /\ pc = "loop_delay" /\ lines = 2 /\ faults > 0
  /\ okLeft > 0 /\ okRight > 0 /\ okCenter > 0
  /\ totalMoves = okLeft + okRight + okCenter
  /\ leftMoves = okLeft /\ rightMoves = okRight

\* C3: when processCommand has returned, its trace holds READY exactly
\* once, as its last line; while it runs, on whatever branch, no READY has
\* been emitted yet.
C3_ReadyOnceLast ==
  /\ pc = "loop_delay" =>
       /\ out # <<>>
       /\ Last(out) = <<"READY">>
       /\ CountReady(out) = 1
  /\ pc \notin SetupPcs \cup IdlePcs => CountReady(out) = 0

\* A TEST whose five choreographies ran, one of them failing, ended with
\* its single READY.
C3_Witness ==
  /\ pc = "loop_delay" /\ command = TEST
  /\ Len(calls) = 5
  /\ \E k \in 1..5 : calls[k][2] = "failed"
  /\ CountReady(out) = 1 /\ Last(out) = <<"READY">>

\* C4: once setup() has ended with systemReady false, every call of
\* executeSortingMovement (from LEFT, RIGHT, CENTER or TEST) returns false
\* behind a "System not ready" line, no step writes to a servo or changes a
\* counter or a tracked angle, systemReady stays false, and STATUS gives its
\* report.
C4_NotReadyRejects ==
  /\ []((~systemReady /\ pc \notin SetupPcs) =>
          /\ \A k \in 1..Len(calls) : calls[k][2] = "failed"
          /\ pc = "esm_ret" =>
               /\ ~ret
               /\ Last(out) = <<"ERROR: System not ready">>
               /\ hw = <<>>
          /\ (pc = "loop_delay" /\ command = STATUS) =>
               out = << <<"Received command: ", STATUS>> >>
                       \o StatusReport \o << <<"READY">> >>
          /\ (pc = "loop_delay" /\ command = TEST) => Len(calls) = 5
          /\ (pc = "loop_delay" /\ command \in {LEFT, RIGHT, CENTER}) =>
               /\ Len(calls) = 1
               /\ out[Len(out) - 1] = <<"ERROR: movement failed", command>>)
  /\ [][(~systemReady /\ pc \notin SetupPcs) =>
          /\ ~systemReady'
          /\ UNCHANGED <<totalMoves, leftMoves, rightMoves, currentPosition1,
                         currentPosition2, servo1, servo2>>
          /\ Len(hw') <= Len(hw)]_vars

\* After a failed initialisation, a TEST has made its five calls, all
\* rejected.
C4_Witness ==
  /\ ~systemReady /\ pc = "loop_delay" /\ command = TEST
  /\ Len(calls) = 5
  /\ \A k \in 1..5 : calls[k][2] = "failed"
  /\ totalMoves = 0 /\ hw = <<>>

\* C5: a processCommand whose normalised token is none of the five commands
\* changes neither systemReady, nor a counter, nor a tracked angle, writes
\* to no servo, and its trace is the "Received" line, the "Unknown command"
\* error, the list of valid commands and READY.
C5_UnknownCommand ==
  /\ []((pc = "loop_delay"
         /\ command \notin {LEFT, RIGHT, CENTER, TEST, STATUS}) =>
          /\ out = << <<"Received command: ", command>>,
                      <<"ERROR: Unknown command - ", command>>,
                      <<"Valid commands: LEFT, RIGHT, CENTER, TEST, STATUS">>,
                      <<"READY">> >>
          /\ hw = <<>> /\ calls = <<>>)
  /\ [][(pc \notin SetupPcs \cup IdlePcs
         /\ Normalised \notin {LEFT, RIGHT, CENTER, TEST, STATUS}) =>
          UNCHANGED <<systemReady, totalMoves, leftMoves, rightMoves,
                      currentPosition1, currentPosition2, servo1, servo2,
                      hw>>]_vars

\* FOO has been processed as the second command, after a successful move.
C5_Witness ==
  /\ pc = "loop_delay" /\ command = <<"F","O","O">>
  /\ lines = 2 /\ totalMoves = 1 /\ systemReady
  /\ Last(out) = <<"READY">> /\ hw = <<>>

\* C6: the writes of a successful LEFT or RIGHT call are, in order: the
\* secondary servo to SERVO2_ACTIVE, primary writes that approach the target
\* and end on it, primary writes that start at the target, approach the
\* centre and end on it, the secondary servo to SERVO2_IDLE; and a step
\* that changes a counter writes nothing and follows the write of
\* SERVO2_IDLE.
C6_WriteOrder ==
  /\ []((pc = "esm_ret" /\ ret /\ Last(calls)[1] \in {LEFT, RIGHT}) =>
          LET n == Len(hw)
              T == Target(Last(calls)[1])
          IN /\ n >= 3
             /\ hw[1] = <<2, SERVO2_ACTIVE>>
             /\ hw[n] = <<2, SERVO2_IDLE>>
             /\ \A k \in 2..(n - 1) : hw[k][1] = 1
             /\ \E m \in 1..(n - 2) :
                  /\ m > 1 => hw[m][2] = T
                  /\ \A k \in 2..(m - 1) :
                       Abs(hw[k + 1][2] - T) <= Abs(hw[k][2] - T)
                  /\ hw[m + 1][2] = T
                  /\ \A k \in (m + 1)..(n - 2) :
                       Abs(hw[k + 1][2] - CENTER_POSITION)
                         <= Abs(hw[k][2] - CENTER_POSITION)
                  /\ hw[n - 1][2] = CENTER_POSITION)
  /\ [][counters' # counters =>
          /\ hw' = hw
          /\ hw # <<>>
          /\ Last(hw) = <<2, SERVO2_IDLE>>]_vars

\* A successful RIGHT from the centre: 96 writes.
C6_Witness ==
  /\ pc = "esm_ret" /\ ret
  /\ Last(calls) = <<RIGHT, "ok">>
  /\ Len(hw) = 96
  /\ hw[1] = <<2, SERVO2_ACTIVE>> /\ hw[48] = <<1, RIGHT_POSITION>>
  /\ hw[95] = <<1, CENTER_POSITION>> /\ hw[96] = <<2, SERVO2_IDLE>>
  /\ rightMoves = 1
\* The signed distance the loop of moveServoSmoothly still has to cover.
LoopDistance == IF step > 0 THEN toPos - pos ELSE pos - toPos

\* C7 as claimed: whenever moveServoSmoothly(servo, a, b) has returned, the
\* last angle written to the servo is b.
C7_Original == pc \in MoveReturnPcs => servo1 = toPos

\* C7, amended: for a # b the call's last write is b, which the servo then
\* holds; for a = b the call returns at once and leaves the servo as it
\* was.  The loop terminates: every iteration lowers the signed distance to
\* b by the step size, and the loop is left as soon as it is negative.
C7_ExactFinal ==
  /\ []((pc \in MoveReturnPcs /\ fromPos # toPos) =>
          /\ hw # <<>>
          /\ Last(hw) = <<1, toPos>>
          /\ servo1 = toPos)
  /\ [][(pc = "move" /\ fromPos = toPos) =>
          /\ pc' \in MoveReturnPcs
          /\ servo1' = servo1
          /\ hw' = hw]_vars
  /\ [][pc = "move_loop" =>
          IF pc' = "move_loop"
          THEN LoopDistance >= 0 /\ LoopDistance' = LoopDistance - StepSize
          ELSE pc' = "move_final" => LoopDistance < 0]_vars

\* A move over an odd difference, 0 to 179, has returned: 90 steps and the
\* final write.
C7_Witness ==
  /\ pc = "move_done" /\ fromPos = 0 /\ toPos = 179
  /\ Len(hw) = 91 /\ hw[90] = <<1, 178>> /\ hw[91] = <<1, 179>>
  /\ servo1 = 179

\* C8: moveServoSmoothly(servo, a, a) returns in one step that writes to no
\* servo and changes nothing but the position of the control thread.
C8_EqualIsNoOp ==
  /\ [][(pc = "move" /\ fromPos = toPos) =>
          /\ pc' \in MoveReturnPcs
          /\ UNCHANGED <<globals, servos, hw, out, command, esmLocals,
                         caller, ret, i, moveLocals, calls, ghosts, lines,
                         faults>>]_vars
  /\ []((pc = "move_done" /\ fromPos = toPos) =>
          hw = <<>> /\ servo1 = fromPos /\ servo2 = SERVO2_IDLE)

\* moveServoSmoothly(servo, 45, 45) has returned.
C8_Witness ==
  /\ pc = "move_done" /\ fromPos = 45 /\ toPos = 45
  /\ hw = <<>> /\ servo1 = 45

\* C9: the calls of executeSortingMovement a TEST has made so far are the
\* first entries of CENTER, LEFT, CENTER, RIGHT, CENTER, and all five have
\* been made when runCompleteTest has returned, whatever each call returned.
C9_TestSequence ==
  (pc \notin SetupPcs \cup {"loop", "processCommand"} /\ command = TEST) =>
    /\ Len(calls) <= 5
    /\ \A k \in 1..Len(calls) : calls[k][1] = testSequence[k]
    /\ pc \in {"ready", "loop_delay"} => Len(calls) = 5

\* A TEST has ended in which a servo write faulted in one call and other
\* calls succeeded.
C9_Witness ==
  /\ pc = "loop_delay" /\ command = TEST /\ systemReady
  /\ Len(calls) = 5
  /\ \E k \in 1..4 : calls[k][2] = "failed" /\ calls[k + 1][2] = "ok"

\* C10: no step of a STATUS command changes systemReady, startTime, a
\* counter, a tracked angle or a servo's angle, or writes to a servo; and
\* STATUS as the first command after a successful boot reports ready YES,
\* the three counters 0 and the angles 90 and 0.
C10_StatusFrame ==
  /\ [][(pc \in {"processCommand", "dispatch", "ready"}
         /\ Normalised = STATUS) =>
          UNCHANGED <<systemReady, startTime, totalMoves, leftMoves,
                      rightMoves, currentPosition1, currentPosition2,
                      servo1, servo2, hw>>]_vars
  /\ []((pc = "loop_delay" /\ command = STATUS /\ lines = 1 /\ systemReady) =>
          out = << <<"Received command: ", STATUS>>,
                   <<"=== ARDUINO SYSTEM STATUS ===">>,
                   <<"System Ready: ", "YES">>,
                   <<"Uptime: ">>,
                   <<"Total Movements: ", 0>>,
                   <<"Left Movements: ", 0>>,
                   <<"Right Movements: ", 0>>,
                   <<"Servo 1 Position: ", 90>>,
                   <<"Servo 2 Position: ", 0>>,
                   <<"Free Memory: ">>,
                   <<"============================">>,
                   <<"READY">> >>)

\* STATUS has been processed as the first command after a successful boot.
C10_Witness ==
  /\ pc = "loop_delay" /\ command = STATUS /\ lines = 1 /\ systemReady
  /\ Len(out) = 12
  /\ servo1 = CENTER_POSITION /\ servo2 = SERVO2_IDLE

\* Positions from the entry of executeSortingMovement to the step before
\* its return.
EsmPcs ==
  {"esm", "esm_activate", "move", "move_loop", "move_final", "esm_hold",
   "esm_returned", "esm_idle", "esm_stats"}

\* C11: a platform fault at a servo write inside executeSortingMovement
\* aborts the call at that write (the write does not happen and no later
\* write of the call is issued), prints the ERROR line and returns false;
\* an aborted call increments none of totalMoves, leftMoves and rightMoves;
\* the command still ends with READY; and after a fault the control thread
\* is not stuck: the caller takes the false return, processCommand prints
\* READY, loop() is reached again and takes whatever line comes next.
C11_FaultAborts ==
  /\ [][(faults' # faults /\ pc \notin SetupPcs) =>
          /\ AtWrite
          /\ pc' = "esm_ret" /\ ret' = FALSE
          /\ Last(out') = <<"ERROR: Servo movement failed">>
          /\ Last(calls') = <<direction, "failed">>
          /\ UNCHANGED <<counters, servo1, servo2, hw>>]_vars
  /\ [][(pc \in EsmPcs /\ pc' = "esm_ret" /\ ret' = FALSE) =>
          UNCHANGED counters]_vars
  /\ []((pc = "esm_ret" /\ Last(calls)[2] = "failed") =>
          /\ ret = FALSE
          /\ totalMoves = okLeft + okRight + okCenter)
  /\ []((pc = "loop_delay" /\ faults > 0) => Last(out) = <<"READY">>)
  /\ []((faults > 0 /\ pc = "esm_ret") => ENABLED (dispatchReturn \/ testReturn))
  /\ []((faults > 0 /\ pc = "ready") => ENABLED sendReady)
  /\ []((faults > 0 /\ pc = "loop_delay") => ENABLED loopDelay)
  /\ []((faults > 0 /\ pc = "loop" /\ lines < MaxLines) =>
          \A raw \in RawLines : ENABLED loop(raw))

\* A movement command completed after the command before it was aborted by
\* a fault at a servo write.
C11_Witness ==
  /\ pc = "loop_delay" /\ lines = 2 /\ faults = 1 /\ systemReady
  /\ calls = << <<RIGHT, "ok">> >>
  /\ totalMoves = 1 /\ rightMoves = 1 /\ leftMoves = 0
  /\ Last(out) = <<"READY">>

\* Positions inside moveServoSmoothly.
MovePcs == {"move", "move_loop", "move_final"}

\* The angles written to servo n by the current call, oldest first.
WritesTo(n) == SelectSeq(hw, LAMBDA w : w[1] = n)

\* The tracked angle is the servo's last written angle or the one written
\* just before it.  With fewer than two writes in the log the angle written
\* before is not known, and the state is let pass.
LagsAtMostOne(n, tracked, written) ==
  LET ws == WritesTo(n) IN
    \/ tracked = written
    \/ Len(ws) < 2
    \/ tracked = ws[Len(ws) - 1][2]

Blank(s) == \A k \in 1..Len(s) : isspace(s[k])

\* Positions of the control thread inside processCommand and behind it.
CommandPcs == {"processCommand", "dispatch", "ready", "loop_delay"}

\* C13 as stated: a line that is empty or blank gets no response at all.
C13_Original ==
  (pc \in CommandPcs /\ Blank(rawLine)) => out = <<>>

\* C13: loop() emits nothing in an iteration in which it reads no line; a
\* line that is empty or holds white space only is read and handed to
\* processCommand like any other: its token is the empty string, and the
\* response is the "Received command" line, the "Unknown command" error, the
\* list of valid commands and READY, with no servo write and no call of
\* executeSortingMovement.
C13_EmptyLine ==
  /\ []((pc = "loop_delay" /\ Blank(rawLine)) =>
          /\ command = <<>>
          /\ out = << <<"Received command: ", <<>> >>,
                      <<"ERROR: Unknown command - ", <<>> >>,
                      <<"Valid commands: LEFT, RIGHT, CENTER, TEST, STATUS">>,
                      <<"READY">> >>
          /\ hw = <<>> /\ calls = <<>>)
  /\ [][(pc = "loop" /\ lines' = lines) => out' = out]_vars
  /\ [][(pc = "loop" /\ lines' # lines) => pc' = "processCommand"]_vars

\* A line of one blank has been processed after a successful boot.
C13_Witness ==
  /\ pc = "loop_delay" /\ rawLine = <<" ">> /\ command = <<>>
  /\ systemReady /\ lines = 1
  /\ Len(out) = 4 /\ out[2] = <<"ERROR: Unknown command - ", <<>> >>

\* C14 as stated: when loop() is entered for the first time, boot has
\* emitted READY, whether or not the initialisation succeeded; after a
\* successful initialisation it is the last line and there is one READY.
C14_Original ==
  (pc = "loop" /\ lines = 0) =>
    /\ CountReady(out) >= 1
    /\ systemReady => (Last(out) = <<"READY">> /\ CountReady(out) = 1)

\* C14: setup() emits READY only when initializeServos succeeded: the boot
\* trace then ends with the banner, whose last line is the only READY of
\* the boot; when the initialisation failed the boot trace ends with
\* "ERROR: Servo initialization failed!" and holds no READY.  No line is
\* read before setup() has ended, and the banner is never emitted again.
C14_BootReady ==
  /\ [](pc \in SetupPcs => CountReady(out) = 0)
  /\ []((pc = "loop" /\ lines = 0) =>
          IF systemReady
          THEN /\ out = << <<"Initializing servos...">>,
                           <<"Both servos initialized and positioned">> >>
                        \o Banner
               /\ Last(out) = <<"READY">>
               /\ CountReady(out) = 1
          ELSE /\ Last(out) = <<"ERROR: Servo initialization failed!">>
               /\ CountReady(out) = 0)
  /\ [](lines > 0 =>
          \A k \in 1..Len(out) : out[k] # <<"System initialized successfully">>)
  /\ [][(lines' # lines) => (pc = "loop" /\ pc' = "processCommand")]_vars
  /\ [][(pc \in SetupPcs) => (lines' = 0)]_vars

\* setup() has ended successfully and no line has been read yet: the boot
\* trace is complete.
C14_Witness ==
  /\ pc = "loop" /\ lines = 0 /\ systemReady
  /\ Len(out) = 10 /\ out[10] = <<"READY">>
  /\ out[9] = <<"System initialized successfully">>

\* C15: systemReady is false and startTime 0 until setup() has called
\* initializeServos; systemReady changes only in the step of setup() that
\* follows a true return of initializeServos, and only to true; once true
\* it stays true through every command and fault; startTime is written in
\* that same step and in no other.
C15_ReadyLatch ==
  /\ [](pc \in SetupPcs => (~systemReady /\ startTime = 0))
  /\ [][(systemReady' # systemReady) =>
          (pc = "setup_ret" /\ ret /\ ~systemReady /\ systemReady')]_vars
  /\ [][systemReady => systemReady']_vars
  /\ [][(startTime' # startTime) =>
          (pc = "setup_ret" /\ ret /\ ~systemReady /\ systemReady')]_vars
  /\ [][(~systemReady /\ systemReady') => startTime' = millisAtBoot]_vars
  /\ []((~systemReady /\ pc \notin SetupPcs) => startTime = 0)

\* A command was aborted by a fault after a successful boot and the system
\* is still ready, with the start time of the boot.
C15_Witness ==
  /\ systemReady /\ startTime = millisAtBoot
  /\ faults = 1 /\ pc = "loop_delay"
  /\ calls # <<>> /\ Last(calls)[2] = "failed"

\* Character c is letter u in either case.
SameLetter(c, u) ==
  c = u \/ \E k \in 1..26 : UpperCase[k] = u /\ LowerCase[k] = c

\* Line s differs from token t only in letter case and in white space
\* before and after it.
Spells(s, t) ==
  \E a \in 0..Len(s) :
    /\ a + Len(t) <= Len(s)
    /\ \A k \in 1..Len(s) :
         IF k <= a \/ k > a + Len(t)
         THEN s[k] \in {" ", "\t", "\r"}
         ELSE SameLetter(s[k], t[k - a])

Tokens == {LEFT, RIGHT, CENTER, TEST, STATUS}

\* C16: a line that differs from one of the five tokens only in letter case
\* and surrounding white space is normalised by processCommand to that
\* token, echoed as that token, and dispatched on the branch of that token
\* (the movement called with that direction, the test, or the status
\* report), from where on nothing depends on the spelling; and the line
\* "left" as the first command after a successful boot, without fault,
\* writes the primary servo down to 0 and back up, leaves it at 90 with the
\* tracked angle 90, totalMoves 1, leftMoves 1 and rightMoves 0.
C16_Normalisation ==
  /\ [][pc = "processCommand" =>
          \A t \in Tokens :
            Spells(rawLine, t) =>
              /\ command' = t
              /\ Last(out') = <<"Received command: ", t>>]_vars
  /\ [][pc = "dispatch" =>
          \A t \in Tokens :
            Spells(rawLine, t) =>
              /\ command = t
              /\ t \in {LEFT, RIGHT, CENTER} =>
                   (pc' = "esm" /\ direction' = t /\ caller' = "cmd")
              /\ t = TEST => pc' = "test_loop"
              /\ t = STATUS => (pc' = "ready" /\ Len(out') = Len(out) + 10)]_vars
  /\ []((pc = "loop_delay" /\ rawLine = <<"l","e","f","t">> /\ lines = 1
         /\ systemReady /\ faults = 0) =>
          /\ command = LEFT
          /\ calls = << <<LEFT, "ok">> >>
          /\ \E k \in 1..Len(hw) : hw[k] = <<1, LEFT_POSITION>>
          /\ hw[Len(hw) - 1] = <<1, CENTER_POSITION>>
          /\ servo1 = CENTER_POSITION /\ currentPosition1 = CENTER_POSITION
          /\ totalMoves = 1 /\ leftMoves = 1 /\ rightMoves = 0)

\* The line "left" has been processed as the first command after a
\* successful boot.
C16_Witness ==
  /\ pc = "loop_delay" /\ rawLine = <<"l","e","f","t">> /\ lines = 1
  /\ systemReady /\ faults = 0
  /\ command = LEFT /\ totalMoves = 1 /\ leftMoves = 1 /\ rightMoves = 0
  /\ servo1 = CENTER_POSITION

\* C17: under weak fairness of the control thread, the thread is in loop(),
\* ready to read a line, again and again: setup() ends, and every line
\* handed to processCommand is processed to its end, whatever the command
\* and whether or not a fault aborts a movement; the thread comes back to
\* loop() only from the end of setup() or behind the READY that ends the
\* response of a command; a line is read only in loop(), that is before the
\* first command or after the READY of the command before; and the lines
\* are taken one by one, none while a command is being processed.
C17_RunsToCompletion ==
  /\ []<>(pc = "loop")
  /\ [][(lines' # lines) =>
          (pc = "loop" /\ pc' = "processCommand" /\ lines' = lines + 1)]_vars
  /\ [][(pc' = "loop" /\ pc # "loop") =>
          \/ pc = "setup_ret"
          \/ pc = "loop_delay" /\ Last(out) = <<"READY">>]_vars
  /\ [][(pc \notin SetupPcs \cup IdlePcs) =>
          (lines' = lines /\ rawLine' = rawLine)]_vars

\* The second of two commands, a TEST, has run to its READY.
C17_Witness ==
  /\ pc = "loop_delay" /\ lines = 2 /\ command = TEST
  /\ Len(calls) = 5 /\ Last(out) = <<"READY">>
  /\ totalMoves >= 5

\* C18: every write of a moveServoSmoothly call with a # b, inside the
\* choreography or on its own for any a, b in 0..180, is a write to the
\* primary servo of an angle in the closed interval between a and b; the
\* first write is a; every later write is on the same side of the write
\* before it as b is of a, or equal to it, and at most 2 away from it.
C18_BoundedMonotone ==
  [][(pc \in {"move_loop", "move_final"} /\ hw' # hw) =>
       LET w == Last(hw')
           lo == IF fromPos < toPos THEN fromPos ELSE toPos
           hi == IF fromPos < toPos THEN toPos ELSE fromPos
       IN /\ fromPos # toPos
          /\ Len(hw') = Len(hw) + 1
          /\ w[1] = 1 /\ servo1' = w[2]
          /\ lo <= w[2] /\ w[2] <= hi
          /\ w[2] \in AngleRange
          /\ IF pc = "move_loop" /\ pos = fromPos
             THEN w[2] = fromPos
             ELSE /\ Last(hw) = <<1, servo1>>
                  /\ fromPos < toPos => servo1 <= w[2]
                  /\ fromPos > toPos => servo1 >= w[2]
                  /\ Abs(w[2] - servo1) <= StepSize]_vars

\* moveServoSmoothly(servo, 180, 1) on its own has returned: 90 writes from
\* 180 down to 2 in steps of 2, then the final write of 1.
C18_Witness ==
  /\ pc = "move_done" /\ phase = "harness"
  /\ fromPos = 180 /\ toPos = 1
  /\ Len(hw) = 91
  /\ hw[1] = <<1, 180>> /\ hw[90] = <<1, 2>> /\ hw[91] = <<1, 1>>

\* C19 as stated: the only servo write of a successful CENTER call is the
\* secondary servo to SERVO2_IDLE.
C19_Original ==
  (pc = "esm_ret" /\ ret /\ Last(calls)[1] = CENTER) =>
    hw = << <<2, SERVO2_IDLE>> >>

\* C19: a successful CENTER call never writes SERVO2_ACTIVE to the
\* secondary servo; its last write is the secondary servo to SERVO2_IDLE and
\* every write before it goes to the primary servo; it writes to the primary
\* servo only if the tracked angle was off the centre when the call
\* started, which needs an earlier call aborted by a fault, so that while no
\* fault has been raised the write of SERVO2_IDLE is its only write; and it
\* increments totalMoves by one and neither leftMoves nor rightMoves.
C19_CenterCall ==
  /\ []((pc = "esm_ret" /\ ret /\ Last(calls)[1] = CENTER) =>
          /\ hw # <<>>
          /\ Last(hw) = <<2, SERVO2_IDLE>>
          /\ \A k \in 1..(Len(hw) - 1) : hw[k][1] = 1
          /\ faults = 0 => hw = << <<2, SERVO2_IDLE>> >>)
  /\ [][(pc \in EsmPcs /\ direction = CENTER /\ pc # "esm") =>
          /\ servo2' # servo2 => (pc = "esm_idle" /\ servo2' = SERVO2_IDLE)
          /\ (servo1' # servo1 /\ phase = "go") =>
               fromPos # CENTER_POSITION]_vars
  /\ [][(pc = "esm_activate" /\ direction = CENTER
         /\ currentPosition1 = CENTER_POSITION) =>
          (hw' = <<>> /\ fromPos' = toPos')]_vars
  /\ [][(pc = "move" /\ fromPos = toPos) =>
          (hw' = hw /\ pc' \in MoveReturnPcs)]_vars
  /\ [][(pc = "esm_activate" /\ currentPosition1 # CENTER_POSITION) =>
          faults > 0]_vars
  /\ [][(pc = "esm_stats" /\ direction = CENTER) =>
          /\ totalMoves' = totalMoves + 1
          /\ UNCHANGED <<leftMoves, rightMoves>>
          /\ ret' /\ pc' = "esm_ret"]_vars

\* A CENTER call that follows a successful LEFT has returned true with one
\* write, that of the secondary servo to idle, and has been counted.
C19_Witness ==
  /\ pc = "esm_ret" /\ ret /\ calls = << <<CENTER, "ok">> >>
  /\ hw = << <<2, SERVO2_IDLE>> >>
  /\ lines = 2 /\ faults = 0
  /\ totalMoves = 2 /\ leftMoves = 1 /\ rightMoves = 0

\* C20: after a successful boot and while no fault has been raised,
\* whenever the control thread is in loop(), between two commands, the
\* tracked angles are 90 and 0 and are the angles last written to the
\* primary and the secondary servo; and the report of every STATUS command
\* shows the positions 90 and 0.
C20_CentredBetweenCommands ==
  /\ (systemReady /\ faults = 0 /\ pc \in IdlePcs) =>
       /\ currentPosition1 = CENTER_POSITION /\ servo1 = currentPosition1
       /\ currentPosition2 = SERVO2_IDLE /\ servo2 = currentPosition2
  /\ (systemReady /\ faults = 0 /\ pc = "loop_delay" /\ command = STATUS) =>
       /\ Len(out) = 12
       /\ out[8] = <<"Servo 1 Position: ", 90>>
       /\ out[9] = <<"Servo 2 Position: ", 0>>

\* STATUS has been processed behind a complete test, without any fault.
C20_Witness ==
  /\ systemReady /\ faults = 0
  /\ pc = "loop_delay" /\ command = STATUS /\ lines = 2
  /\ totalMoves = 5 /\ leftMoves = 1 /\ rightMoves = 1
  /\ out[8] = <<"Servo 1 Position: ", 90>>
  /\ servo1 = 90 /\ servo2 = 0
====
